---- MODULE Spec2Model ----
(***************************************************************************)
(* A knowledge-base assistant.                                             *)
(*                                                                         *)
(*   Spec, SpecFair  the /api/v1/ask endpoint (ask_question), the Document *)
(*                   Store fetch it awaits (Database.get_articles_by_ids)  *)
(*                   and the LLM service it drives (prioritize_articles,   *)
(*                   answer_question, summarize_context)                   *)
(*   SpecPrio        LLMService.prioritize_articles on free inputs         *)
(*   SpecSearch      Database.search_articles_fts                          *)
(*   SpecChunk       LLMService.chunk_text on free inputs                  *)
(*   SpecConn        Database.connect                                      *)
(*   SpecConc        two invocations interleaved at their awaits           *)
(*                                                                         *)
(* Each specification moves its own variables and holds the others at      *)
(* their idle values.                                                      *)
(*                                                                         *)
(* Text is modelled concretely, run-length encoded: a text is a sequence   *)
(* of runs <<c, n>> (character c repeated n >= 1 times) in which adjacent  *)
(* runs carry different characters, so two texts are the same string iff   *)
(* they are the same sequence.  This keeps the real budget (4000 estimated *)
(* tokens, 16000 characters) within reach of the model checker.            *)
(***************************************************************************)
EXTENDS Integers, Sequences, FiniteSets, TLC

VARIABLES
    pc,                   \* position of the ask_question coroutine
    request,              \* the AskRequest being served
    articles,             \* rows returned by db.get_articles_by_ids
    prioritized_articles, \* result of llm_service.prioritize_articles
    total_content,        \* summarize_context's local concatenation
    full_context,         \* answer_question's context text
    inflight,             \* completion-service calls issued and not yet settled
    response,             \* what ask_question hands back to the framework
    log,                  \* the steps of the current cycle, in order
    p_pc,                 \* prioritize_articles applied to free inputs:
    p_articles,           \*   its articles argument
    p_question,           \*   its question argument
    p_max,                \*   its max_articles argument
    p_result,             \*   its return value
    p_again,              \*   prioritize_articles applied to that value
    s_pc,                 \* position of one Database.search_articles_fts call
    s_query,              \*   its query argument
    s_category,           \*   its category argument (Optional[str])
    s_limit,              \*   its limit argument
    s_ts_query,           \*   its local ts_query, the $1 of the statement
    s_rows,               \*   the rows it returns
    ch_pc,                \* LLMService.chunk_text applied to free inputs:
    ch_text,              \*   its text argument
    ch_max,               \*   its max_chunk_size argument
    ch_chunks,            \*   its return value
    k_pc,                 \* position of Database.connect
    k_i,                  \*   iterations of its loop begun so far
    db_pool,              \*   db.pool
    last_exc,             \*   its local last_exc
    k_thrown,             \*   what the latest create_pool call raised
    k_raised,             \*   the exception connect itself raised
    k_log,                \*   its steps, in order
    c_pc,                 \* concurrent invocations: position of each
    c_req,                \*   the request each one serves
    c_frame,              \*   the local variables of each coroutine
    c_calls,              \*   what each has sent to the store and the service
    c_hist,               \*   what the store and the service answered each
    c_resp,               \*   what each returned
    c_mid,                \*   who took a step while another was in flight
    c_config              \*   the fields of the shared llm_service

vars == <<pc, request, articles, prioritized_articles, total_content,
          full_context, inflight, response, log,
          p_pc, p_articles, p_question, p_max, p_result, p_again,
          s_pc, s_query, s_category, s_limit, s_ts_query, s_rows,
          ch_pc, ch_text, ch_max, ch_chunks,
          k_pc, k_i, db_pool, last_exc, k_thrown, k_raised, k_log,
          c_pc, c_req, c_frame, c_calls, c_hist, c_resp, c_mid, c_config>>

askVars == <<pc, request, articles, prioritized_articles, total_content,
             full_context, inflight, response, log>>

prioVars == <<p_pc, p_articles, p_question, p_max, p_result, p_again>>

\* Everything outside the question-answer cycle, and outside the
\* prioritize_articles harness.
searchVars == <<s_pc, s_query, s_category, s_limit, s_ts_query, s_rows>>

chunkVars == <<ch_pc, ch_text, ch_max, ch_chunks>>

connVars == <<k_pc, k_i, db_pool, last_exc, k_thrown, k_raised, k_log>>

concVars == <<c_pc, c_req, c_frame, c_calls, c_hist, c_resp, c_mid, c_config>>

exceptAsk == <<prioVars, searchVars, chunkVars, connVars, concVars>>
exceptPrio == <<askVars, searchVars, chunkVars, connVars, concVars>>
exceptSearch == <<askVars, prioVars, chunkVars, connVars, concVars>>
exceptChunk == <<askVars, prioVars, searchVars, connVars, concVars>>
exceptConn == <<askVars, prioVars, searchVars, chunkVars, concVars>>
exceptConc == <<askVars, prioVars, searchVars, chunkVars, connVars>>

-----------------------------------------------------------------------------
(* Strings *)

UpperChars == <<"A","B","C","D","E","F","G","H","I","J","K","L","M",
                "N","O","P","Q","R","S","T","U","V","W","X","Y","Z">>

LowerChars == <<"a","b","c","d","e","f","g","h","i","j","k","l","m",
                "n","o","p","q","r","s","t","u","v","w","x","y","z">>

\* The characters of the model that the regular expression class \w rejects.
NonWordChars == {" ", "\n", ":", "-", ",", "?", ".", "&"}

IsWordChar(c) == c \notin NonWordChars

\* str.lower() on one character.
LowerChar(c) ==
    IF \E i \in 1..Len(UpperChars) : UpperChars[i] = c
    THEN LowerChars[CHOOSE i \in 1..Len(UpperChars) : UpperChars[i] = c]
    ELSE c

\* String concatenation a + b.
Cat(a, b) ==
    IF a = <<>> THEN b
    ELSE IF b = <<>> THEN a
    ELSE IF a[Len(a)][1] = b[1][1]
         THEN SubSeq(a, 1, Len(a) - 1)
              \o << <<b[1][1], a[Len(a)][2] + b[1][2]>> >>
              \o Tail(b)
         ELSE a \o b

\* A character repeated n times.
Rep(c, n) == IF n = 0 THEN <<>> ELSE << <<c, n>> >>

\* A string literal, given character by character.
RECURSIVE S(_)
S(chars) ==
    IF chars = <<>> THEN <<>>
    ELSE Cat(S(SubSeq(chars, 1, Len(chars) - 1)), Rep(chars[Len(chars)], 1))

\* The characters held by runs i..j of text.  (The recursions over texts
\* halve the range, so their depth is logarithmic in the number of runs.)
RECURSIVE SumRuns(_, _, _)
SumRuns(text, i, j) ==
    IF i > j THEN 0
    ELSE IF i = j THEN text[i][2]
    ELSE LET m == (i + j) \div 2
         IN  SumRuns(text, i, m) + SumRuns(text, m + 1, j)

\* len(text)
TLen(text) == SumRuns(text, 1, Len(text))

\* The first n characters of runs i..j of text.
RECURSIVE SliceRuns(_, _, _, _)
SliceRuns(text, i, j, n) ==
    IF i > j \/ n <= 0 THEN <<>>
    ELSE IF i = j
         THEN (IF text[i][2] <= n THEN <<text[i]>> ELSE << <<text[i][1], n>> >>)
    ELSE LET m == (i + j) \div 2
             left == SumRuns(text, i, m)
         IN  IF left >= n THEN SliceRuns(text, i, m, n)
             ELSE SubSeq(text, i, m) \o SliceRuns(text, m + 1, j, n - left)

\* The slice text[:n].
Slice(text, n) == SliceRuns(text, 1, Len(text), n)

\* p is a prefix of text.
IsPrefix(p, text) == Slice(text, TLen(p)) = p

\* str.lower() on runs i..j of text.
RECURSIVE LowerRuns(_, _, _)
LowerRuns(text, i, j) ==
    IF i > j THEN <<>>
    ELSE IF i = j THEN Rep(LowerChar(text[i][1]), text[i][2])
    ELSE LET m == (i + j) \div 2
         IN  Cat(LowerRuns(text, i, m), LowerRuns(text, m + 1, j))

\* str.lower()
lower(text) == LowerRuns(text, 1, Len(text))

\* set(re.findall(r'\b\w+\b', text)): the maximal runs of word characters;
\* cur is the word being read.
RECURSIVE FindWords(_, _)
FindWords(text, cur) ==
    IF text = <<>> THEN (IF cur = <<>> THEN {} ELSE {cur})
    ELSE IF IsWordChar(text[1][1])
         THEN FindWords(Tail(text), cur \o <<text[1]>>)
         ELSE (IF cur = <<>> THEN {} ELSE {cur}) \cup FindWords(Tail(text), <<>>)

findall_words(text) == FindWords(text, <<>>)

\* sep.join(parts)
RECURSIVE Join(_, _)
Join(sep, parts) ==
    IF parts = <<>> THEN <<>>
    ELSE IF Len(parts) = 1 THEN parts[1]
    ELSE Cat(Cat(Join(sep, SubSeq(parts, 1, Len(parts) - 1)), sep),
             parts[Len(parts)])

-----------------------------------------------------------------------------
(* LLMService configuration *)

max_tokens == 4000

\* int(len(text) * 0.25): the product is exact and int() truncates.
estimate_tokens(text) == TLen(text) \div 4


-----------------------------------------------------------------------------
(* Document Store content: the articles table joined with authors,         *)
(* categories and tags.  Articles 3 and 4 carry long bodies: article 3     *)
(* alone fits the budget in summarize_context's layout (16001 characters,  *)
(* 4000 estimated tokens) but not in answer_question's, article 4 fits in  *)
(* neither.  Articles 5 and 6 share a publication timestamp.  The tags of  *)
(* an article are listed in one of the orders the tag query may return.    *)

MidLen == 15981
BigLen == 16100

Article(id, title, content, category, tags, date) ==
    [id |-> id, title |-> title, content |-> content,
     author_name |-> S(<<"A","l">>), category_name |-> category,
     tags |-> tags, published_date |-> date]

Web == S(<<"W","e","b">>)
Db == S(<<"D","B">>)

Store == {
    Article(1, S(<<"F","a","s","t"," ","A","P","I">>), S(<<"w","e","b"," ","a","p","i",".">>), Web,
            <<S(<<"p","y">>), S(<<"w","e","b">>)>>, 70),
    Article(2, S(<<"S","Q","L">>), S(<<"r","o","w","s",".">>), Db, <<>>, 60),
    Article(3, S(<<"m">>), Rep("x", MidLen), Web, <<>>, 50),
    Article(4, S(<<"b">>), Rep("y", BigLen), Db, <<S(<<"b","i","g">>)>>, 40),
    Article(5, S(<<"a","p","i">>), S(<<"f","a","s","t">>), Web, <<>>, 30),
    Article(6, S(<<"w","e","b">>), S(<<"F","a","s","t"," ","f","a","s","t">>), Web, <<>>, 30),
    Article(7, S(<<"t","i","p","s">>), S(<<"a","p","i"," ","s","q","l"," ","i","n","d","e","x">>), Db, <<>>, 10) }

ById(id) == CHOOSE a \in Store : a.id = id

\* Ids a request may name: the stored ones and one that matches nothing.
UnknownId == 9
RequestIds == {a.id : a \in Store} \cup {UnknownId}

Questions == { S(<<"F","a","s","t"," ","a","p","i","?">>), S(<<"s","q","l"," ","i","n","d","e","x">>), <<>> }

-----------------------------------------------------------------------------
(* Database.get_articles_by_ids *)

\* ORDER BY a.published_date DESC: every order of the rows that is
\* non-increasing in published_date (rows with equal timestamps come in
\* either order).
RECURSIVE OrderByDateDesc(_)
OrderByDateDesc(rows) ==
    IF rows = {} THEN { <<>> }
    ELSE LET newest == {a \in rows :
                          \A b \in rows : b.published_date <= a.published_date}
         IN  UNION { { <<a>> \o rest : rest \in OrderByDateDesc(rows \ {a}) }
                     : a \in newest }

\* WHERE a.id IN (...): the stored articles the id list names.
get_articles_by_ids(article_ids) ==
    OrderByDateDesc({a \in Store : a.id \in article_ids})

-----------------------------------------------------------------------------
(* LLMService.prioritize_articles *)

\* Variant: title matches weigh no more than content matches.
ScoreUnweighted(article, question_words) ==
    LET title_words == findall_words(lower(article.title))
        content_words == findall_words(lower(article.content))
    IN  Cardinality(question_words \cap title_words)
        + Cardinality(question_words \cap content_words)

\* The score computed for one article (the loop body).
Score(article, question_words) ==
    LET title_words == findall_words(lower(article.title))
        content_words == findall_words(lower(article.content))
        title_matches == Cardinality(question_words \cap title_words)
        content_matches == Cardinality(question_words \cap content_words)
    IN  title_matches * 3 + content_matches

\* Variant: x goes ahead of the elements of equal score.
InsertDescUnstable(sorted, x) ==
    LET ahead == {i \in 1..Len(sorted) : sorted[i][1] > x[1]}
        k == IF ahead = {} THEN 0
             ELSE CHOOSE i \in ahead : \A j \in ahead : j <= i
    IN  SubSeq(sorted, 1, k) \o <<x>> \o SubSeq(sorted, k + 1, Len(sorted))

\* One step of list.sort(key=score, reverse=True): x goes behind every
\* element already placed whose score is at least its own, which is what
\* keeps the sort stable.
InsertDesc(sorted, x) ==
    LET ahead == {i \in 1..Len(sorted) : sorted[i][1] >= x[1]}
        k == IF ahead = {} THEN 0
             ELSE CHOOSE i \in ahead : \A j \in ahead : j <= i
    IN  SubSeq(sorted, 1, k) \o <<x>> \o SubSeq(sorted, k + 1, Len(sorted))

RECURSIVE SortDesc(_)
SortDesc(scored) ==
    IF scored = <<>> THEN <<>>
    ELSE InsertDesc(SortDesc(SubSeq(scored, 1, Len(scored) - 1)),
                    scored[Len(scored)])

\* The list slice xs[:n].
ListSlice(xs, n) ==
    IF n <= 0 THEN <<>> ELSE SubSeq(xs, 1, IF n < Len(xs) THEN n ELSE Len(xs))

\* (variant: the fast path taken only below the cap)
prioritize_articles_below(arts, question, max_articles) ==
    IF Len(arts) < max_articles THEN arts
    ELSE LET question_words == findall_words(lower(question))
             scored_articles ==
                 [i \in 1..Len(arts) |-> <<Score(arts[i], question_words), arts[i]>>]
             sorted == SortDesc(scored_articles)
             top == ListSlice(sorted, max_articles)
         IN  [i \in 1..Len(top) |-> top[i][2]]

prioritize_articles(arts, question, max_articles) ==
    IF Len(arts) <= max_articles THEN arts
    ELSE LET question_words == findall_words(lower(question))
             scored_articles ==
                 [i \in 1..Len(arts) |-> <<Score(arts[i], question_words), arts[i]>>]
             sorted == SortDesc(scored_articles)
             top == ListSlice(sorted, max_articles)
         IN  [i \in 1..Len(top) |-> top[i][2]]


-----------------------------------------------------------------------------
(* Text layouts of LLMService *)

NL == S(<<"\n">>)

\* summarize_context: what one article adds to total_content.
SummaryBlock(article) ==
    Cat(Cat(Cat(S(<<"T","i","t","l","e",":"," ">>), article.title), NL),
        Cat(Cat(S(<<"C","o","n","t","e","n","t",":"," ">>), article.content), S(<<"\n","\n">>)))

\* summarize_context: total_content after the loop.
RECURSIVE TotalContent(_)
TotalContent(arts) ==
    IF arts = <<>> THEN <<>>
    ELSE Cat(TotalContent(SubSeq(arts, 1, Len(arts) - 1)),
             SummaryBlock(arts[Len(arts)]))

\* answer_question: article_text of one article.
ArticleText(article) ==
    LET head ==
            Cat(Cat(Cat(S(<<"T","i","t","l","e",":"," ">>), article.title), NL),
            Cat(Cat(Cat(S(<<"A","u","t","h","o","r",":"," ">>), article.author_name), NL),
            Cat(Cat(Cat(S(<<"C","a","t","e","g","o","r","y",":"," ">>), article.category_name), NL),
                Cat(Cat(S(<<"C","o","n","t","e","n","t",":"," ">>), article.content), NL))))
    IN  IF article.tags # <<>>
        THEN Cat(head, Cat(Cat(S(<<"T","a","g","s",":"," ">>), Join(S(<<","," ">>), article.tags)), NL))
        ELSE head

\* answer_question: context_parts, then "\n\n---\n\n".join(context_parts)
RECURSIVE JoinParts(_, _)
JoinParts(arts, sep) ==
    IF arts = <<>> THEN <<>>
    ELSE IF Len(arts) = 1 THEN ArticleText(arts[1])
    ELSE Cat(Cat(JoinParts(SubSeq(arts, 1, Len(arts) - 1), sep), sep),
             ArticleText(arts[Len(arts)]))

JoinedContext(arts) ==
    JoinParts(arts, S(<<"\n","\n","-","-","-","\n","\n">>))

-----------------------------------------------------------------------------
(* Text Completion Service: what a chat completion may come back with *)

\* Summaries the service may generate for a summarization prompt.  The call
\* caps the completion at 2000 model tokens, which does not cap its length
\* in characters: the long summary stands for a completion of more than
\* eight characters per model token.
LongSummaryLen == 16004

SummaryTexts == { S(<<"s","u","m",".">>), Rep("z", LongSummaryLen) }

GeneratedAnswers == { <<"generated answer">> }

\* str(e) of the exceptions the client raises.
CompletionErrors == { "Connection error.", "Rate limit reached." }

\* str(e) of the exceptions the connection pool raises.
StoreErrors == { "connection is closed" }

SummarizeCall(text) ==
    [purpose |-> "summarize", text |-> text, question |-> <<>>, max_tokens |-> 2000]

AnswerCall(context, question) ==
    [purpose |-> "answer", text |-> context, question |-> question, max_tokens |-> 500]

-----------------------------------------------------------------------------
(* ask_question *)

NoContextMessage == <<"No relevant context found to answer your question.">>

AskResponse(answer, context_used) ==
    [status |-> 200, answer |-> answer, context_used |-> context_used, detail |-> ""]

HTTPException(status_code, detail) ==
    [status |-> status_code, answer |-> <<>>, context_used |-> <<>>, detail |-> detail]

NoResponse == [status |-> 0, answer |-> <<>>, context_used |-> <<>>, detail |-> ""]

NoRequest == [question |-> <<>>, context_ids |-> {}, typed |-> TRUE]

AskInit ==
    /\ pc = "idle"
    /\ request = NoRequest
    /\ articles = <<>>
    /\ prioritized_articles = <<>>
    /\ total_content = <<>>
    /\ full_context = <<>>
    /\ inflight = <<>>
    /\ response = NoResponse
    /\ log = <<>>

PrioIdle ==
    /\ p_pc = "off"
    /\ p_articles = <<>>
    /\ p_question = <<>>
    /\ p_max = 0
    /\ p_result = <<>>
    /\ p_again = <<>>

\* Optional[str]: None, or a string.
None == <<>>
Some(text) == <<text>>

SearchIdle ==
    /\ s_pc = "off"
    /\ s_query = <<>>
    /\ s_category = None
    /\ s_limit = 0
    /\ s_ts_query = <<>>
    /\ s_rows = <<>>

ChunkIdle ==
    /\ ch_pc = "off"
    /\ ch_text = <<>>
    /\ ch_max = 0
    /\ ch_chunks = <<>>

\* The module-level db after startup: connect is not running.  (The
\* model of the endpoints does not read db.pool.)
ConnIdle ==
    /\ k_pc = "off"
    /\ k_i = 0
    /\ db_pool = "None"
    /\ last_exc = "None"
    /\ k_thrown = "None"
    /\ k_raised = "None"
    /\ k_log = <<>>

\* No concurrent invocation is being followed.
ConcIdle ==
    /\ c_pc = <<>>
    /\ c_req = <<>>
    /\ c_frame = <<>>
    /\ c_calls = <<>>
    /\ c_hist = <<>>
    /\ c_resp = <<>>
    /\ c_mid = {}
    /\ c_config = <<>>

Init == AskInit /\ PrioIdle /\ SearchIdle /\ ChunkIdle /\ ConnIdle /\ ConcIdle


-----------------------------------------------------------------------------
(* One question-answer cycle.  The coroutine runs without interruption     *)
(* between two awaits that suspend it, so each action is the code from one *)
(* suspension point to the next.                                           *)

\* max_articles=5 at the call site in ask_question.
MaxArticles == 5

\* Variant: the empty result is not singled out.
NoArticlesNever(rows) == FALSE

\* ask_question: `if not articles`.
NoArticles(rows) == rows = <<>>

\* answer_question: `if self.estimate_tokens(full_context) > self.max_tokens`.
NeedsSummary(context) == estimate_tokens(context) > max_tokens

\* Variant: the comparison made strict.
FitsBudgetStrict(content) == estimate_tokens(content) < max_tokens

\* summarize_context: `if self.estimate_tokens(total_content) <= self.max_tokens`.
FitsBudget(content) == estimate_tokens(content) <= max_tokens

\* Variant: the fallback returns the content untruncated.
FallbackTextWhole(content) == content

\* summarize_context: the return of the except branch.
FallbackText(content) == Slice(content, max_tokens * 4)

\* answer_question: the return of the except branch.
ErrorAnswer(e) == <<"Error generating answer: ", e>>

\* ask_question: return AskResponse(...)
ReturnResponse(answer, context_used, lg) ==
    /\ response' = AskResponse(answer, context_used)
    /\ pc' = "done"
    /\ log' = lg \o <<"return">>

\* answer_question: the prompt is built around the context and the
\* answer-generation call is issued.
IssueAnswerCall(context, question, lg) ==
    /\ full_context' = context
    /\ inflight' = Append(inflight, AnswerCall(context, question))
    /\ pc' = "answer_wait"
    /\ log' = lg \o <<"answer_call">>
    /\ UNCHANGED response

\* summarize_context up to its await.
SummarizeContext(arts, joined, question, lg) ==
    LET content == TotalContent(arts)
    IN  /\ total_content' = content
        /\ IF FitsBudget(content)
           THEN IssueAnswerCall(content, question, lg)
           ELSE /\ full_context' = joined
                /\ inflight' = Append(inflight, SummarizeCall(content))
                /\ pc' = "summarize_wait"
                /\ log' = lg \o <<"summarize_call">>
                /\ UNCHANGED response

\* answer_question up to its first await.
AnswerQuestion(question, context_articles, lg) ==
    IF context_articles = <<>>
    THEN /\ ReturnResponse(NoContextMessage, context_articles, lg)
         /\ UNCHANGED <<total_content, full_context, inflight>>
    ELSE LET joined == JoinedContext(context_articles)
         IN  IF NeedsSummary(joined)
             THEN SummarizeContext(context_articles, joined, question,
                                   lg \o <<"assemble">>)
             ELSE /\ IssueAnswerCall(joined, question, lg \o <<"assemble">>)
                  /\ UNCHANGED total_content

\* ask_question from the return of db.get_articles_by_ids on.
Proceed(rows, question, lg) ==
    /\ articles' = rows
    /\ IF NoArticles(rows)
       THEN /\ ReturnResponse(NoContextMessage, <<>>, lg)
            /\ UNCHANGED <<prioritized_articles, total_content, full_context,
                           inflight>>
       ELSE LET prioritized == prioritize_articles(rows, question, MaxArticles)
            IN  /\ prioritized_articles' = prioritized
                /\ AnswerQuestion(question, prioritized, lg \o <<"prioritize">>)

\* A body that does not validate as AskRequest never reaches ask_question.
RejectRequest ==
    /\ pc = "idle"
    /\ request' = [NoRequest EXCEPT !.typed = FALSE]
    /\ response' = HTTPException(422, "validation error")
    /\ pc' = "done"
    /\ log' = <<"reject">>
    /\ UNCHANGED <<articles, prioritized_articles, total_content, full_context,
                   inflight, exceptAsk>>

\* ask_question is entered and calls db.get_articles_by_ids, which returns
\* [] at once for an empty id list and queries the store otherwise.
AskQuestion ==
    /\ pc = "idle"
    /\ \E question \in Questions, context_ids \in SUBSET RequestIds :
        /\ request' = [question |-> question, context_ids |-> context_ids,
                       typed |-> TRUE]
        /\ IF context_ids = {}
           THEN Proceed(<<>>, question, <<>>)
           ELSE /\ pc' = "db_wait"
                /\ log' = <<"store_query">>
                /\ UNCHANGED <<articles, prioritized_articles, total_content,
                               full_context, inflight, response>>
    /\ UNCHANGED exceptAsk

\* The store answers the query.
DbReturn ==
    /\ pc = "db_wait"
    /\ \E rows \in get_articles_by_ids(request.context_ids) :
        Proceed(rows, request.question, log)
    /\ UNCHANGED <<request, exceptAsk>>

\* The store query raises; ask_question turns it into HTTPException(400).
DbFail ==
    /\ pc = "db_wait"
    /\ \E e \in StoreErrors :
        /\ response' = HTTPException(400, e)
        /\ pc' = "done"
        /\ log' = log \o <<"store_fail", "raise">>
    /\ UNCHANGED <<request, articles, prioritized_articles, total_content,
                   full_context, inflight, exceptAsk>>

\* The summarization call returns its completion.
SummarizeOk ==
    /\ pc = "summarize_wait"
    /\ \E summary \in SummaryTexts :
        /\ full_context' = summary
        /\ inflight' = Append(Tail(inflight), AnswerCall(summary, request.question))
        /\ pc' = "answer_wait"
        /\ log' = log \o <<"summarize_ok", "answer_call">>
    /\ UNCHANGED <<request, articles, prioritized_articles, total_content,
                   response, exceptAsk>>

\* Variant: the failure of the summarization call is not caught in
\* summarize_context and reaches ask_question's handler.
SummarizeFailRaises ==
    /\ pc = "summarize_wait"
    /\ \E e \in CompletionErrors :
        /\ response' = HTTPException(400, e)
        /\ pc' = "done"
        /\ log' = log \o <<"summarize_fail", "raise">>
    /\ inflight' = Tail(inflight)
    /\ UNCHANGED <<request, articles, prioritized_articles, total_content,
                   full_context, exceptAsk>>

\* Variant: a failed summarization call is issued again.
SummarizeFailRetry ==
    /\ pc = "summarize_wait"
    /\ Len(log) < 12
    /\ inflight' = Append(Tail(inflight), inflight[1])
    /\ log' = log \o <<"summarize_fail", "summarize_call">>
    /\ UNCHANGED <<pc, request, articles, prioritized_articles, total_content,
                   full_context, response, exceptAsk>>

\* The summarization call raises.
SummarizeFail ==
    /\ pc = "summarize_wait"
    /\ LET fallback == FallbackText(total_content)
       IN  /\ full_context' = fallback
           /\ inflight' = Append(Tail(inflight),
                                 AnswerCall(fallback, request.question))
           /\ pc' = "answer_wait"
           /\ log' = log \o <<"summarize_fail", "answer_call">>
    /\ UNCHANGED <<request, articles, prioritized_articles, total_content,
                   response, exceptAsk>>

\* Variant: the response lists the fetched rows, not the prioritized ones.
AnswerOkUnprioritized ==
    /\ pc = "answer_wait"
    /\ \E answer \in GeneratedAnswers :
        ReturnResponse(answer, articles, log \o <<"answer_ok">>)
    /\ inflight' = Tail(inflight)
    /\ UNCHANGED <<request, articles, prioritized_articles, total_content,
                   full_context, exceptAsk>>

\* The answer-generation call returns its completion.
AnswerOk ==
    /\ pc = "answer_wait"
    /\ \E answer \in GeneratedAnswers :
        ReturnResponse(answer, prioritized_articles, log \o <<"answer_ok">>)
    /\ inflight' = Tail(inflight)
    /\ UNCHANGED <<request, articles, prioritized_articles, total_content,
                   full_context, exceptAsk>>

\* Variant: a failed answer-generation call is issued again.
AnswerFailRetry ==
    /\ pc = "answer_wait"
    /\ Len(log) < 12
    /\ inflight' = Append(Tail(inflight), inflight[1])
    /\ log' = log \o <<"answer_fail", "answer_call">>
    /\ UNCHANGED <<pc, request, articles, prioritized_articles, total_content,
                   full_context, response, exceptAsk>>

\* The answer-generation call raises.
AnswerFail ==
    /\ pc = "answer_wait"
    /\ \E e \in CompletionErrors :
        ReturnResponse(ErrorAnswer(e), prioritized_articles,
                       log \o <<"answer_fail">>)
    /\ inflight' = Tail(inflight)
    /\ UNCHANGED <<request, articles, prioritized_articles, total_content,
                   full_context, exceptAsk>>

\* The response is delivered; the next request finds nothing of this one.
Deliver ==
    /\ pc = "done"
    /\ pc' = "idle"
    /\ request' = NoRequest
    /\ articles' = <<>>
    /\ prioritized_articles' = <<>>
    /\ total_content' = <<>>
    /\ full_context' = <<>>
    /\ inflight' = <<>>
    /\ response' = NoResponse
    /\ log' = <<>>
    /\ UNCHANGED exceptAsk

Next ==
    \/ RejectRequest
    \/ AskQuestion
    \/ DbReturn
    \/ DbFail
    \/ SummarizeOk
    \/ SummarizeFail
    \/ AnswerOk
    \/ AnswerFail
    \/ Deliver

Spec == Init /\ [][Next]_vars

\* An awaited operation is eventually settled, one way or the other: the
\* store fetch returns or raises, and so does each completion-service call.
SpecFair ==
    /\ Init
    /\ [][Next]_vars
    /\ WF_vars(DbFail \/ DbReturn)
    /\ WF_vars(SummarizeOk \/ SummarizeFail)
    /\ WF_vars(AnswerOk \/ AnswerFail)


-----------------------------------------------------------------------------
(* prioritize_articles on its own: the arguments are drawn freely, the     *)
(* articles from the store in any order and without repetition (the rows   *)
(* of one fetch are distinct).                                             *)

MaxListLen == 3
MaxCap == 2

RECURSIVE DistinctLists(_, _)
DistinctLists(pool, n) ==
    IF n = 0 THEN { <<>> }
    ELSE { <<>> } \cup
         UNION { { <<a>> \o rest : rest \in DistinctLists(pool \ {a}, n - 1) }
                 : a \in pool }

PrioInit ==
    /\ AskInit
    /\ SearchIdle
    /\ ChunkIdle
    /\ ConnIdle
    /\ ConcIdle
    /\ p_pc = "ready"
    /\ p_articles \in DistinctLists(Store, MaxListLen)
    /\ p_question \in Questions
    /\ p_max \in 1..MaxCap
    /\ p_result = <<>>
    /\ p_again = <<>>

Prioritize ==
    /\ p_pc = "ready"
    /\ p_result' = prioritize_articles(p_articles, p_question, p_max)
    /\ p_pc' = "done"
    /\ UNCHANGED <<p_articles, p_question, p_max, p_again, exceptPrio>>

\* The returned list is handed to prioritize_articles once more, with the
\* same question and cap.
PrioritizeAgain ==
    /\ p_pc = "done"
    /\ p_again' = prioritize_articles(p_result, p_question, p_max)
    /\ p_pc' = "again"
    /\ UNCHANGED <<p_articles, p_question, p_max, p_result, exceptPrio>>

NextPrio ==
    \/ Prioritize
    \/ PrioritizeAgain

SpecPrio == PrioInit /\ [][NextPrio]_vars


-----------------------------------------------------------------------------
(* Database.search_articles_fts *)

IsSpace(c) == c \in {" ", "\n"}

\* str.split(): the maximal runs of non-whitespace characters, in order;
\* cur is the word being read.
RECURSIVE SplitWords(_, _)
SplitWords(text, cur) ==
    IF text = <<>> THEN (IF cur = <<>> THEN <<>> ELSE <<cur>>)
    ELSE IF IsSpace(text[1][1])
         THEN (IF cur = <<>> THEN <<>> ELSE <<cur>>)
              \o SplitWords(Tail(text), <<>>)
         ELSE SplitWords(Tail(text), cur \o <<text[1]>>)

split(text) == SplitWords(text, <<>>)

AndSep == S(<<" ","&"," ">>)

\* ts_query = ' & '.join(query.strip().split()), and the raw query when
\* that is the empty string.
TsQuery(query) ==
    LET joined == Join(AndSep, split(query))
    IN  IF joined = <<>> THEN query ELSE joined

\* f"%{category}%" if category else None, kept as the text between the
\* two wildcards.
CategoryPattern(category) ==
    IF category # None /\ category[1] # <<>> THEN category ELSE None

\* text[n:] of a short text.
RECURSIVE DropChars(_, _)
DropChars(text, n) ==
    IF n = 0 \/ text = <<>> THEN text
    ELSE IF text[1][2] <= n THEN DropChars(Tail(text), n - text[1][2])
    ELSE << <<text[1][1], text[1][2] - n>> >> \o Tail(text)

Contains(text, part) ==
    \E k \in 0..(TLen(text) - TLen(part)) :
        Slice(DropChars(text, k), TLen(part)) = part

\* c.name ILIKE '%pattern%' for a pattern of letters: a case-insensitive
\* substring test.
ILike(name, pattern) == Contains(lower(name), lower(pattern))

\* WHERE ($2::text IS NULL OR c.name ILIKE $2)
PassesCategory(article, pattern) ==
    pattern = None \/ ILike(article.category_name, pattern[1])

\* The lowercased words of a text, in order; cur is the word being read.
RECURSIVE WordSeq(_, _)
WordSeq(text, cur) ==
    IF text = <<>> THEN (IF cur = <<>> THEN <<>> ELSE <<cur>>)
    ELSE IF IsWordChar(text[1][1])
         THEN WordSeq(Tail(text), cur \o <<text[1]>>)
         ELSE (IF cur = <<>> THEN <<>> ELSE <<cur>>)
              \o WordSeq(Tail(text), <<>>)

\* to_tsvector(coalesce(a.title,'') || ' ' || coalesce(a.content,'')): the
\* lexemes of the document with their occurrences, taken here as its
\* lowercased words (no stemming, no stop words).
to_tsvector(article) ==
    WordSeq(lower(Cat(Cat(article.title, S(<<" ">>)), article.content)), <<>>)

\* to_tsquery($1): the lexemes the query requires, all of them (&).  Text
\* without a lexeme, whitespace included, gives the empty query.
to_tsquery(ts_query) == findall_words(lower(ts_query))

\* document @@ q: every lexeme of the query occurs in the document; the
\* empty query matches no document.
MatchesQuery(document, q) ==
    /\ q # {}
    /\ \A w \in q : \E i \in 1..Len(document) : document[i] = w

\* ts_rank(document, q), taken as the number of occurrences of the query's
\* lexemes in the document.
ts_rank(document, q) ==
    Cardinality({i \in 1..Len(document) : document[i] \in q})

\* CASE WHEN $1 <> '' THEN ts_rank(r.document, r.q) ELSE 0 END
RankOf(article, ts_query) ==
    IF ts_query # <<>> THEN ts_rank(to_tsvector(article), to_tsquery(ts_query))
    ELSE 0

\* (variant: the empty query selects nothing)
SelectedIfMatching(article, ts_query) ==
    MatchesQuery(to_tsvector(article), to_tsquery(ts_query))

\* WHERE ($1 = '' OR r.document @@ r.q)
Selected(article, ts_query) ==
    ts_query = <<>> \/ MatchesQuery(to_tsvector(article), to_tsquery(ts_query))

\* (variant: ORDER BY r.published_date DESC alone)
SortsBeforeByDate(a, b, ts_query) ==
    a.published_date > b.published_date

\* ORDER BY rank DESC, r.published_date DESC: a is placed before b.
SortsBefore(a, b, ts_query) ==
    \/ RankOf(a, ts_query) > RankOf(b, ts_query)
    \/ /\ RankOf(a, ts_query) = RankOf(b, ts_query)
       /\ a.published_date > b.published_date

\* Every order of the rows the ORDER BY clause allows (rows equal in rank
\* and timestamp come in either order).
RECURSIVE OrderByRankDate(_, _)
OrderByRankDate(rows, ts_query) ==
    IF rows = {} THEN { <<>> }
    ELSE LET first == {a \in rows :
                         \A b \in rows : ~SortsBefore(b, a, ts_query)}
         IN  UNION { { <<a>> \o rest :
                         rest \in OrderByRankDate(rows \ {a}, ts_query) }
                     : a \in first }

\* The statement of search_articles_fts with its three parameters: the
\* possible row lists.
RankedRows(ts_query, pattern, limit) ==
    LET ranked == {a \in Store : PassesCategory(a, pattern)}
        selected == {a \in ranked : Selected(a, ts_query)}
    IN  { ListSlice(rows, limit) : rows \in OrderByRankDate(selected, ts_query) }

MaxLimit == 5

SearchQueries == {
    <<>>,
    S(<<" "," ">>),
    S(<<"a","p","i">>),
    S(<<"f","a","s","t">>),
    S(<<" ","F","a","s","t"," "," ","a","p","i","\n">>),
    S(<<"j","a","v","a">>) }

SearchCategories == {
    None,
    Some(<<>>),
    Some(S(<<"w","e","b">>)),
    Some(S(<<"D">>)),
    Some(S(<<"b">>)),
    Some(S(<<"o","p","s">>)) }

SearchInit ==
    /\ AskInit
    /\ PrioIdle
    /\ ChunkIdle
    /\ ConnIdle
    /\ ConcIdle
    /\ s_pc = "ready"
    /\ s_query \in SearchQueries
    /\ s_category \in SearchCategories
    /\ s_limit \in 0..MaxLimit
    /\ s_ts_query = <<>>
    /\ s_rows = <<>>

\* Lines 297-299, up to the await of the statement.
SearchCall ==
    /\ s_pc = "ready"
    /\ s_ts_query' = TsQuery(s_query)
    /\ s_pc' = "fetch_wait"
    /\ UNCHANGED <<s_query, s_category, s_limit, s_rows, exceptSearch>>

\* The statement returns its rows; the tags of each row are attached and
\* the list is returned.
SearchReturn ==
    /\ s_pc = "fetch_wait"
    /\ \E rows \in RankedRows(s_ts_query, CategoryPattern(s_category), s_limit) :
          s_rows' = rows
    /\ s_pc' = "done"
    /\ UNCHANGED <<s_query, s_category, s_limit, s_ts_query, exceptSearch>>

\* The connection or the statement fails and the exception propagates.
SearchFail ==
    /\ s_pc = "fetch_wait"
    /\ s_pc' = "raised"
    /\ UNCHANGED <<s_query, s_category, s_limit, s_ts_query, s_rows, exceptSearch>>

NextSearch ==
    \/ SearchCall
    \/ SearchReturn
    \/ SearchFail

SpecSearch == SearchInit /\ [][NextSearch]_vars


-----------------------------------------------------------------------------
(* LLMService.chunk_text *)

Space == S(<<" ">>)

\* (variant: the word that overflows the running piece is not carried
\* over to the next one)
PackWordLosing(words, chunks, current_chunk, current_size, max_chunk_size) ==
    LET word == Head(words)
        word_size == estimate_tokens(Cat(word, Space))
    IN  IF current_size + word_size > max_chunk_size /\ current_chunk # <<>>
        THEN <<Append(chunks, Join(Space, current_chunk)), <<>>, 0>>
        ELSE <<chunks, Append(current_chunk, word), current_size + word_size>>

\* One iteration of `for word in words`: the new chunks, current_chunk and
\* current_size.
PackWord(words, chunks, current_chunk, current_size, max_chunk_size) ==
    LET word == Head(words)
        word_size == estimate_tokens(Cat(word, Space))
    IN  IF current_size + word_size > max_chunk_size /\ current_chunk # <<>>
        THEN <<Append(chunks, Join(Space, current_chunk)), <<word>>, word_size>>
        ELSE <<chunks, Append(current_chunk, word), current_size + word_size>>

\* The loop over the words, and the flush of the last running piece.
RECURSIVE PackWords(_, _, _, _, _)
PackWords(words, chunks, current_chunk, current_size, max_chunk_size) ==
    IF words = <<>>
    THEN (IF current_chunk # <<>>
          THEN Append(chunks, Join(Space, current_chunk))
          ELSE chunks)
    ELSE LET step == PackWord(words, chunks, current_chunk, current_size,
                              max_chunk_size)
         IN  PackWords(Tail(words), step[1], step[2], step[3], max_chunk_size)

chunk_text(text, max_chunk_size) ==
    IF estimate_tokens(text) <= max_chunk_size THEN <<text>>
    ELSE PackWords(split(text), <<>>, <<>>, 0, max_chunk_size)

MaxRuns == 5
MaxChunkSize == 2

ChunkChars == {"a", "b", " "}
ChunkRunLens == {1, 3}

\* The texts of at most n runs over ChunkChars.
RECURSIVE TextsUpTo(_)
TextsUpTo(n) ==
    IF n = 0 THEN { <<>> }
    ELSE LET shorter == TextsUpTo(n - 1)
         IN  shorter \cup
             { Append(x[1], <<x[2], x[3]>>) :
                 x \in { y \in shorter \X ChunkChars \X ChunkRunLens :
                           /\ Len(y[1]) = n - 1
                           /\ y[1] = <<>> \/ y[1][Len(y[1])][1] # y[2] } }

ChunkInit ==
    /\ AskInit
    /\ PrioIdle
    /\ SearchIdle
    /\ ConnIdle
    /\ ConcIdle
    /\ ch_pc = "ready"
    /\ ch_text \in TextsUpTo(MaxRuns)
    /\ ch_max \in 0..MaxChunkSize
    /\ ch_chunks = <<>>

Chunk ==
    /\ ch_pc = "ready"
    /\ ch_chunks' = chunk_text(ch_text, ch_max)
    /\ ch_pc' = "done"
    /\ UNCHANGED <<ch_text, ch_max, exceptChunk>>

NextChunk == Chunk

SpecChunk == ChunkInit /\ [][NextChunk]_vars


-----------------------------------------------------------------------------
(* Database.connect *)

retries == 10

\* What asyncpg.create_pool may raise while the database starts up.
PoolErrors == { "ConnectionRefusedError", "CannotConnectNowError",
                "TimeoutError", "InvalidPasswordError" }

ConnInit ==
    /\ AskInit
    /\ PrioIdle
    /\ SearchIdle
    /\ ChunkIdle
    /\ ConcIdle
    /\ k_pc = "ready"
    /\ k_i = 0
    /\ db_pool = "None"
    /\ last_exc = "None"
    /\ k_thrown = "None"
    /\ k_raised = "None"
    /\ k_log = <<>>

\* The next iteration of `for _ in range(retries)` starting at i, or the
\* code after the loop.
LoopFrom(i) ==
    IF i < retries
    THEN /\ k_i' = i + 1
         /\ k_pc' = "create_wait"
         /\ k_log' = Append(k_log, "attempt")
         /\ k_raised' = k_raised
    ELSE /\ k_i' = i
         /\ IF last_exc # "None"
            THEN /\ k_raised' = last_exc
                 /\ k_pc' = "raised"
                 /\ k_log' = Append(k_log, "raise")
            ELSE /\ k_raised' = k_raised
                 /\ k_pc' = "returned"
                 /\ k_log' = Append(k_log, "return")

\* startup_event awaits db.connect(): up to the first await.
Connect ==
    /\ k_pc = "ready"
    /\ LoopFrom(0)
    /\ UNCHANGED <<db_pool, last_exc, k_thrown, exceptConn>>

\* create_pool returns a pool: it is stored and connect returns.
CreatePoolOk ==
    /\ k_pc = "create_wait"
    /\ db_pool' = "Pool"
    /\ k_pc' = "returned"
    /\ k_log' = k_log \o <<"ok", "return">>
    /\ UNCHANGED <<k_i, last_exc, k_thrown, k_raised, exceptConn>>

\* create_pool raises an Exception: it is kept and the sleep begins.
CreatePoolFail ==
    /\ k_pc = "create_wait"
    /\ \E exc \in PoolErrors :
          /\ k_thrown' = exc
          /\ last_exc' = exc
    /\ k_pc' = "sleep_wait"
    /\ k_log' = k_log \o <<"fail", "sleep">>
    /\ UNCHANGED <<k_i, db_pool, k_raised, exceptConn>>

\* (variant: after the last sleep connect returns without raising)
SleepDoneSilent ==
    /\ k_pc = "sleep_wait"
    /\ IF k_i < retries
       THEN LoopFrom(k_i)
       ELSE /\ k_pc' = "returned"
            /\ k_log' = Append(k_log, "return")
            /\ UNCHANGED <<k_i, k_raised>>
    /\ UNCHANGED <<db_pool, last_exc, k_thrown, exceptConn>>

\* asyncio.sleep(1.0) is over: the next iteration, or the end of the loop.
SleepDone ==
    /\ k_pc = "sleep_wait"
    /\ LoopFrom(k_i)
    /\ UNCHANGED <<db_pool, last_exc, k_thrown, exceptConn>>

NextConn ==
    \/ Connect
    \/ CreatePoolOk
    \/ CreatePoolFail
    \/ SleepDone

SpecConn == ConnInit /\ [][NextConn]_vars


-----------------------------------------------------------------------------
(* Concurrent invocations: coroutines of ask_question and search_articles  *)
(* on one event loop, sharing the module-level llm_service and db.  A step *)
(* is the code one coroutine runs between two awaits.                      *)

Procs == {1, 2}

\* LLMService.__init__: the fields every invocation reads; 0.25 as 1/4.
Config == [max_tokens |-> max_tokens, approx_tokens_per_char |-> <<1, 4>>]

NoFrame ==
    [question |-> <<>>, articles |-> <<>>, prioritized_articles |-> <<>>,
     total_content |-> <<>>, full_context |-> <<>>]

NoHist == [db |-> <<>>, summary |-> <<>>, answer |-> <<>>]

AskReq(question, context_ids) ==
    [kind |-> "ask", question |-> question, context_ids |-> context_ids,
     category |-> None, limit |-> 0]

SearchReq(query, category, limit) ==
    [kind |-> "search", question |-> query, context_ids |-> {},
     category |-> category, limit |-> limit]

ConcRequests ==
    { AskReq(S(<<"F","a","s","t"," ","a","p","i","?">>), {a.id : a \in Store}),
      AskReq(S(<<"s","q","l"," ","i","n","d","e","x">>), {a.id : a \in Store}),
      AskReq(S(<<"s","q","l"," ","i","n","d","e","x">>), {4}),
      AskReq(S(<<"F","a","s","t"," ","a","p","i","?">>), {3}),
      AskReq(S(<<"F","a","s","t"," ","a","p","i","?">>), {UnknownId}),
      SearchReq(S(<<"a","p","i">>), Some(S(<<"w","e","b">>)), 2) }

\* The statement search_articles_fts sends with its three parameters.
SearchStatement(ts_query, pattern, limit) ==
    [purpose |-> "search", ts_query |-> ts_query, pattern |-> pattern,
     limit |-> limit]

SearchResponse(rows) == AskResponse(<<>>, rows)

\* (variant: the locals are kept on the shared service object)
FrameShared(p) == 1

\* Each coroutine has its own frame of local variables.
Frame(p) == p

ConcInit ==
    /\ AskInit
    /\ PrioIdle
    /\ SearchIdle
    /\ ChunkIdle
    /\ ConnIdle
    /\ c_pc = [p \in Procs |-> "idle"]
    /\ c_req = [p \in Procs |-> AskReq(<<>>, {})]
    /\ c_frame = [p \in Procs |-> NoFrame]
    /\ c_calls = [p \in Procs |-> <<>>]
    /\ c_hist = [p \in Procs |-> NoHist]
    /\ c_resp = [p \in Procs |-> NoResponse]
    /\ c_mid = {}
    /\ c_config = Config

\* p takes a step; it is noted when another invocation is in flight.
Step(p) ==
    c_mid' = IF \E o \in Procs \ {p} : c_pc[o] \notin {"idle", "done"}
             THEN c_mid \cup {p} ELSE c_mid

\* ask_question from the return of db.get_articles_by_ids to the next
\* await or to the return: the position reached, the locals, the call
\* issued and the response, if any.
ProceedStep(question, rows) ==
    IF NoArticles(rows)
    THEN [pc |-> "done", prioritized_articles |-> <<>>, total_content |-> <<>>,
          full_context |-> <<>>, calls |-> <<>>,
          resp |-> AskResponse(NoContextMessage, <<>>)]
    ELSE LET prioritized == prioritize_articles(rows, question, MaxArticles)
             joined == JoinedContext(prioritized)
             content == TotalContent(prioritized)
         IN  IF ~NeedsSummary(joined)
             THEN [pc |-> "answer_wait", prioritized_articles |-> prioritized,
                   total_content |-> <<>>, full_context |-> joined,
                   calls |-> <<AnswerCall(joined, question)>>,
                   resp |-> NoResponse]
             ELSE IF FitsBudget(content)
             THEN [pc |-> "answer_wait", prioritized_articles |-> prioritized,
                   total_content |-> content, full_context |-> content,
                   calls |-> <<AnswerCall(content, question)>>,
                   resp |-> NoResponse]
             ELSE [pc |-> "summarize_wait", prioritized_articles |-> prioritized,
                   total_content |-> content, full_context |-> joined,
                   calls |-> <<SummarizeCall(content)>>,
                   resp |-> NoResponse]

\* A request arrives: the endpoint runs up to its first await.
CStart(p) ==
    /\ c_pc[p] = "idle"
    /\ \E req \in ConcRequests :
          /\ c_req' = [c_req EXCEPT ![p] = req]
          /\ c_frame' = [c_frame EXCEPT
                           ![Frame(p)] = [NoFrame EXCEPT !.question = req.question]]
          /\ IF req.kind = "search"
             THEN /\ c_pc' = [c_pc EXCEPT ![p] = "fetch_wait"]
                  /\ c_calls' = [c_calls EXCEPT ![p] =
                         <<SearchStatement(TsQuery(req.question),
                                           CategoryPattern(req.category),
                                           req.limit)>>]
             ELSE /\ c_pc' = [c_pc EXCEPT ![p] = "db_wait"]
                  /\ c_calls' = [c_calls EXCEPT ![p] = <<>>]
    /\ Step(p)
    /\ UNCHANGED <<c_hist, c_resp, c_config, exceptConc>>

\* The search statement returns its rows and the endpoint returns them.
CSearchReturn(p) ==
    /\ c_pc[p] = "fetch_wait"
    /\ \E rows \in RankedRows(c_calls[p][1].ts_query, c_calls[p][1].pattern,
                              c_calls[p][1].limit) :
          /\ c_hist' = [c_hist EXCEPT ![p].db = <<"ok", rows>>]
          /\ c_resp' = [c_resp EXCEPT ![p] = SearchResponse(rows)]
          /\ c_frame' = [c_frame EXCEPT ![Frame(p)].articles = rows]
    /\ c_pc' = [c_pc EXCEPT ![p] = "done"]
    /\ Step(p)
    /\ UNCHANGED <<c_req, c_calls, c_config, exceptConc>>

\* db.get_articles_by_ids returns its rows.
CDbReturn(p) ==
    /\ c_pc[p] = "db_wait"
    /\ \E rows \in get_articles_by_ids(c_req[p].context_ids) :
          LET f == c_frame[Frame(p)]
              next == ProceedStep(f.question, rows)
          IN  /\ c_hist' = [c_hist EXCEPT ![p].db = <<"ok", rows>>]
              /\ c_frame' = [c_frame EXCEPT ![Frame(p)] =
                    [question |-> f.question, articles |-> rows,
                     prioritized_articles |-> next.prioritized_articles,
                     total_content |-> next.total_content,
                     full_context |-> next.full_context]]
              /\ c_calls' = [c_calls EXCEPT ![p] = @ \o next.calls]
              /\ c_resp' = [c_resp EXCEPT ![p] = next.resp]
              /\ c_pc' = [c_pc EXCEPT ![p] = next.pc]
    /\ Step(p)
    /\ UNCHANGED <<c_req, c_config, exceptConc>>

\* The store raises: HTTPException(400), from either endpoint.
CDbFail(p) ==
    /\ c_pc[p] \in {"db_wait", "fetch_wait"}
    /\ \E e \in StoreErrors :
          /\ c_hist' = [c_hist EXCEPT ![p].db = <<"fail", e>>]
          /\ c_resp' = [c_resp EXCEPT ![p] = HTTPException(400, e)]
    /\ c_pc' = [c_pc EXCEPT ![p] = "done"]
    /\ Step(p)
    /\ UNCHANGED <<c_req, c_frame, c_calls, c_config, exceptConc>>

\* The summarization call returns or raises; the answer call is issued on
\* the summary, or on the truncated content.
CSummarizeSettled(p) ==
    /\ c_pc[p] = "summarize_wait"
    /\ LET f == c_frame[Frame(p)]
       IN  \E outcome \in { <<"ok", t>> : t \in SummaryTexts }
                          \cup { <<"fail", e>> : e \in CompletionErrors } :
              LET context == IF outcome[1] = "ok" THEN outcome[2]
                             ELSE FallbackText(f.total_content)
              IN  /\ c_hist' = [c_hist EXCEPT ![p].summary = outcome]
                  /\ c_frame' = [c_frame EXCEPT ![Frame(p)].full_context = context]
                  /\ c_calls' = [c_calls EXCEPT ![p] =
                                   Append(@, AnswerCall(context, f.question))]
    /\ c_pc' = [c_pc EXCEPT ![p] = "answer_wait"]
    /\ Step(p)
    /\ UNCHANGED <<c_req, c_resp, c_config, exceptConc>>

\* The answer call returns or raises; ask_question returns its response.
CAnswerSettled(p) ==
    /\ c_pc[p] = "answer_wait"
    /\ LET f == c_frame[Frame(p)]
       IN  \E outcome \in { <<"ok", t>> : t \in GeneratedAnswers }
                          \cup { <<"fail", e>> : e \in CompletionErrors } :
              /\ c_hist' = [c_hist EXCEPT ![p].answer = outcome]
              /\ c_resp' = [c_resp EXCEPT ![p] =
                    AskResponse(IF outcome[1] = "ok" THEN outcome[2]
                                ELSE ErrorAnswer(outcome[2]),
                                f.prioritized_articles)]
    /\ c_pc' = [c_pc EXCEPT ![p] = "done"]
    /\ Step(p)
    /\ UNCHANGED <<c_req, c_frame, c_calls, c_config, exceptConc>>

NextConc ==
    \/ \E p \in Procs : CStart(p)
    \/ \E p \in Procs : CSearchReturn(p)
    \/ \E p \in Procs : CDbReturn(p)
    \/ \E p \in Procs : CDbFail(p)
    \/ \E p \in Procs : CSummarizeSettled(p)
    \/ \E p \in Procs : CAnswerSettled(p)

SpecConc == ConcInit /\ [][NextConc]_vars


-----------------------------------------------------------------------------
(* Properties of the question-answer cycle *)

InLog(e) == \E i \in 1..Len(log) : log[i] = e

Count(e) == Cardinality({i \in 1..Len(log) : log[i] = e})

\* The stored articles the request's id list names.
Candidates == {a \in Store : a.id \in request.context_ids}

\* C1, as stated: whichever collaborator operation fails (the store fetch,
\* the summarization call, the answer-generation call), a cycle that
\* entered ask_question ends with a structured Answer and never with an
\* exception raised to the caller.
C1_NeverRaises ==
    (pc = "done" /\ request.typed) => response.status = 200

\* C1, amended: a failure of either completion-service call ends in a
\* structured Answer (status 200, an answer text, a context list) and no
\* exception; a failure of the store fetch is raised to the caller as
\* HTTPException(400), and nothing else is.
C1_CompletionFailuresAnswered ==
    /\ (InLog("summarize_fail") \/ InLog("answer_fail")) =>
          /\ response.status \in {0, 200}
          /\ ~InLog("raise")
          /\ pc = "done" =>
                /\ response.status = 200
                /\ response.answer # <<>>
                /\ response.context_used = prioritized_articles
    /\ (pc = "done" /\ request.typed) =>
          /\ response.status \in {200, 400}
          /\ response.status = 400 <=> InLog("store_fail")

C1_Witness ==
    /\ pc = "done"
    /\ InLog("summarize_fail")
    /\ InLog("answer_fail")
    /\ response.status = 200

\* C2: the context text embedded in the prompt of every answer-generation
\* call has an estimated size within the budget, whichever branch of the
\* assembly produced it.
C2_ContextWithinBudget ==
    \A i \in 1..Len(inflight) :
        inflight[i].purpose = "answer" =>
            estimate_tokens(inflight[i].text) <= max_tokens

\* C3: when the answer-generation call fails the cycle is over: the call was
\* issued once and is not issued again, nothing is raised, and the response
\* is the error-flavoured answer paired with the prioritized list that was
\* handed to answer generation.
C3_AnswerFailureNotRetried ==
    InLog("answer_fail") =>
        /\ pc = "done"
        /\ Count("answer_call") = 1
        /\ Count("answer_fail") = 1
        /\ inflight = <<>>
        /\ response.status = 200
        /\ Len(response.answer) = 2
        /\ response.answer[1] = "Error generating answer: "
        /\ response.answer[2] \in CompletionErrors
        /\ response.context_used = prioritized_articles
        /\ prioritized_articles # <<>>
        /\ prioritized_articles
             \in {prioritize_articles(rows, request.question, 5) :
                    rows \in OrderByDateDesc(Candidates)}

C3_Witness ==
    /\ pc = "done"
    /\ InLog("answer_fail")
    /\ Len(articles) > 5
    /\ response.context_used # articles

\* C4: when the id list resolves to no stored article, the cycle returns the
\* fixed no-context message with an empty context list, and between the
\* fetch and the return nothing happens: no prioritization, no context
\* assembly, no completion-service call.
C4_EmptyCandidatesNoContext ==
    (pc = "done" /\ request.typed /\ Candidates = {} /\ response.status = 200) =>
        /\ response.answer = <<"No relevant context found to answer your question.">>
        /\ response.context_used = <<>>
        /\ log = (IF request.context_ids = {} THEN <<"return">>
                  ELSE <<"store_query", "return">>)
        /\ inflight = <<>>

C4_Witness ==
    /\ pc = "done"
    /\ request.context_ids = {UnknownId}
    /\ response.status = 200
    /\ InLog("store_query")

\* C5: in a cycle over a non-empty document set whose completion calls
\* succeed, the steps come in the order prioritize, assemble, answer call;
\* the answer call is issued once, after at most one summarization call
\* which has returned by then; never are two completion calls outstanding;
\* the response pairs the generated text with the prioritized list.
C5_SequentialSuccess ==
    /\ Len(inflight) <= 1
    /\ (pc = "done" /\ InLog("answer_ok") /\ ~InLog("summarize_fail")) =>
          /\ log \in { <<"store_query", "prioritize", "assemble",
                         "answer_call", "answer_ok", "return">>,
                       <<"store_query", "prioritize", "assemble",
                         "summarize_call", "summarize_ok",
                         "answer_call", "answer_ok", "return">> }
          /\ response.status = 200
          /\ response.answer \in GeneratedAnswers
          /\ response.context_used = prioritized_articles
          /\ prioritized_articles
               \in {prioritize_articles(rows, request.question, 5) :
                      rows \in OrderByDateDesc(Candidates)}

C5_Witness ==
    /\ pc = "done"
    /\ InLog("summarize_ok")
    /\ InLog("answer_ok")
    /\ Len(articles) > 5
    /\ response.context_used # articles


\* The two concatenations of the prioritized articles: answer_question's
\* (title, author, category, content and tags, joined by the delimiter) and
\* summarize_context's (title and content only).
Joined == JoinedContext(prioritized_articles)
Titled == TotalContent(prioritized_articles)

\* The assembly is over: the answer-generation call is out or has settled.
Assembled == InLog("answer_call")

\* C6, as stated: once the assembly is over, a full concatenation estimated
\* above the budget has led to exactly one summarization call, and one
\* within the budget to none, the concatenation being used verbatim.
C6_SummarizedIffOverBudget ==
    Assembled =>
        IF estimate_tokens(Joined) > max_tokens
        THEN Count("summarize_call") = 1
        ELSE Count("summarize_call") = 0 /\ full_context = Joined

\* C6, amended: exactly one summarization call is issued when both
\* answer_question's concatenation and the title/content concatenation that
\* summarize_context builds are estimated above the budget, and its
\* summary, when it returns one, becomes the context; when the first is
\* above the budget and the second within it, no call is issued and the
\* second is the context verbatim; when the first is within the budget, no
\* call is issued and the first is the context verbatim.
C6_SummarizedIffBothOverBudget ==
    Assembled =>
        /\ estimate_tokens(Joined) <= max_tokens =>
              Count("summarize_call") = 0 /\ full_context = Joined
        /\ (estimate_tokens(Joined) > max_tokens
              /\ estimate_tokens(Titled) <= max_tokens) =>
              Count("summarize_call") = 0 /\ full_context = Titled
        /\ (estimate_tokens(Joined) > max_tokens
              /\ estimate_tokens(Titled) > max_tokens) =>
              /\ Count("summarize_call") = 1
              /\ Count("summarize_ok") + Count("summarize_fail") = 1
              /\ InLog("summarize_ok") => full_context \in SummaryTexts

C6_Witness ==
    /\ Assembled
    /\ estimate_tokens(Joined) > max_tokens
    /\ estimate_tokens(Titled) = max_tokens
    /\ full_context = Titled
    /\ ~InLog("summarize_call")

\* C7, as stated: after a failed summarization call nothing is raised and
\* the context is a prefix, of at most max_tokens * 4 characters, of the
\* concatenation answer_question compared with the budget.
C7_FallbackPrefixOfJoined ==
    InLog("summarize_fail") =>
        /\ ~InLog("raise")
        /\ IsPrefix(full_context, Joined)
        /\ TLen(full_context) <= 16000

\* C7, amended: after a failed summarization call nothing is raised and the
\* context is a prefix, of at most max_tokens * 4 characters, of the
\* title/content concatenation that summarize_context built in input order
\* and compared with the budget itself.
C7_FallbackPrefixOfTitled ==
    InLog("summarize_fail") =>
        /\ ~InLog("raise")
        /\ response.status \in {0, 200}
        /\ IsPrefix(full_context, Titled)
        /\ TLen(full_context) <= 16000
        /\ estimate_tokens(Titled) > max_tokens

C7_Witness ==
    /\ pc = "done"
    /\ InLog("summarize_fail")
    /\ response.status = 200
    /\ TLen(full_context) = 16000
    /\ Len(prioritized_articles) > 1

\* C8: a request with an empty question, an empty id list or ids that match
\* no stored article ends in a validation failure, without a store query or
\* a completion call, and never in a normal Answer.
C8_MalformedRejected ==
    (pc = "done" /\ request.typed
       /\ (request.question = <<>> \/ Candidates = {})) =>
        /\ response.status = 422
        /\ ~InLog("store_query")
        /\ ~InLog("summarize_call")
        /\ ~InLog("answer_call")

-----------------------------------------------------------------------------
(* Properties of prioritize_articles *)

\* 3 * |Q /\ title tokens| + |Q /\ body tokens| over distinct lowercase words.
OverlapScore(a) ==
    LET Q == findall_words(lower(p_question))
    IN  3 * Cardinality(Q \cap findall_words(lower(a.title)))
        + Cardinality(Q \cap findall_words(lower(a.content)))

InputIndex(a) == CHOOSE i \in 1..Len(p_articles) : p_articles[i] = a

\* a ranks ahead of b: a higher score, or the same score and earlier input.
RanksAhead(a, b) ==
    \/ OverlapScore(a) > OverlapScore(b)
    \/ OverlapScore(a) = OverlapScore(b) /\ InputIndex(a) < InputIndex(b)

Returned == {p_result[k] : k \in 1..Len(p_result)}
Given == {p_articles[k] : k \in 1..Len(p_articles)}

\* C9: of a list longer than the cap N, prioritize_articles returns the
\* first N elements of the list sorted stably by descending score: N
\* documents of the input, none twice, each ranking ahead of the next
\* (equal scores in input order) and ahead of every document left out.
C9_TopNStableByScore ==
    (p_pc = "done" /\ Len(p_articles) > p_max) =>
        /\ Len(p_result) = p_max
        /\ Returned \subseteq Given
        /\ \A k, l \in 1..Len(p_result) :
              k < l => RanksAhead(p_result[k], p_result[l])
        /\ \A a \in Given \ Returned, r \in Returned : RanksAhead(r, a)

C9_Witness ==
    /\ p_pc = "done"
    /\ Len(p_articles) > p_max
    /\ p_result # SubSeq(p_articles, 1, p_max)
    /\ \E k \in 1..(Len(p_result) - 1) :
          /\ OverlapScore(p_result[k]) = OverlapScore(p_result[k + 1])
          /\ OverlapScore(p_result[k]) > 0

\* C10, as stated: for a list of any length, a document with a strictly
\* greater score comes strictly before one with a smaller score in the
\* output whenever both are returned.
C10_HigherScoreFirst ==
    p_pc = "done" =>
        \A k, l \in 1..Len(p_result) :
            OverlapScore(p_result[k]) > OverlapScore(p_result[l]) => k < l

\* C10, amended: for a list longer than the cap, a document with a strictly
\* greater score comes strictly before one with a smaller score in the
\* output whenever both are returned, whatever their order in the input.
C10_HigherScoreFirstAboveCap ==
    (p_pc = "done" /\ Len(p_articles) > p_max) =>
        \A k, l \in 1..Len(p_result) :
            OverlapScore(p_result[k]) > OverlapScore(p_result[l]) => k < l

C10_Witness ==
    /\ p_pc = "done"
    /\ Len(p_articles) > p_max
    /\ \E k, l \in 1..Len(p_result) :
          /\ OverlapScore(p_result[k]) > OverlapScore(p_result[l])
          /\ InputIndex(p_result[k]) > InputIndex(p_result[l])

\* C11: prioritize_articles is idempotent.  A list of at most N documents
\* comes back unchanged, in the same order; and for a list of any length,
\* prioritizing the returned list again with the same question and cap
\* gives the returned list back.
C11_Idempotent ==
    /\ (p_pc \in {"done", "again"} /\ Len(p_articles) <= p_max) =>
           p_result = p_articles
    /\ p_pc = "again" => p_again = p_result

\* A list of exactly N documents whose scores are out of order, returned
\* as it was given and returned again by the second application.
C11_Witness ==
    /\ p_pc = "again"
    /\ Len(p_articles) = p_max
    /\ p_result = p_articles
    /\ p_again = p_result
    /\ \E k, l \in 1..Len(p_articles) :
          k < l /\ OverlapScore(p_articles[k]) < OverlapScore(p_articles[l])

-----------------------------------------------------------------------------
(* Termination of the question-answer cycle *)

CompletionCalls == Count("summarize_call") + Count("answer_call")

NoContextOutcome ==
    /\ response = AskResponse(NoContextMessage, <<>>)
    /\ CompletionCalls = 0

SuccessOutcome ==
    /\ response.status = 200
    /\ response.answer \in GeneratedAnswers
    /\ Count("answer_ok") = 1
    /\ Count("answer_fail") = 0

FailureOutcome ==
    /\ response.status = 200
    /\ \E e \in CompletionErrors : response.answer = ErrorAnswer(e)
    /\ Count("answer_fail") = 1
    /\ Count("answer_ok") = 0

\* C14: a cycle whose awaited operations are each settled reaches its
\* return; and a cycle whose store fetch returned ends in exactly one of
\* the three outcomes (no context, success, completion failure) after at
\* most two completion-service calls, a summarization call at most once
\* and an answer-generation call at most once, over budget or not.
C14_Terminates ==
    /\ (pc \in {"db_wait", "summarize_wait", "answer_wait"}) ~> (pc = "done")
    /\ []((pc = "done" /\ request.typed /\ ~InLog("store_fail")) =>
            /\ Cardinality({o \in {"none", "ok", "failed"} :
                              \/ o = "none" /\ NoContextOutcome
                              \/ o = "ok" /\ SuccessOutcome
                              \/ o = "failed" /\ FailureOutcome}) = 1
            /\ CompletionCalls <= 2
            /\ Count("summarize_call") <= 1
            /\ Count("answer_call") <= 1
            /\ inflight = <<>>)

\* An over-budget context whose summarization call failed, answered from
\* the truncated text: two completion-service calls.
C14_Witness ==
    /\ pc = "done"
    /\ InLog("summarize_fail")
    /\ CompletionCalls = 2
    /\ SuccessOutcome

-----------------------------------------------------------------------------
(* Properties of search_articles_fts *)

\* The words the search asks for, and the words of a document in order.
SearchWords == findall_words(lower(s_query))

DocWords(a) == WordSeq(lower(Cat(Cat(a.title, S(<<" ">>)), a.content)), <<>>)

HasWord(a, w) == \E i \in 1..Len(DocWords(a)) : DocWords(a)[i] = w

\* Lexical relevance: the occurrences of the searched words in a document.
Relevance(a) ==
    Cardinality({i \in 1..Len(DocWords(a)) : DocWords(a)[i] \in SearchWords})

MatchesSearch(a) == SearchWords # {} /\ \A w \in SearchWords : HasWord(a, w)

\* The category filter: none given (or the empty string), or the category
\* name contains the given text, case-insensitively.
PassesFilter(a) ==
    \/ s_category = None
    \/ s_category[1] = <<>>
    \/ Contains(lower(a.category_name), lower(s_category[1]))

Found == {s_rows[k] : k \in 1..Len(s_rows)}

MinOf(x, y) == IF x < y THEN x ELSE y

\* C12: for a non-empty query, search_articles_fts returns at most limit
\* documents, each once, all matching the query and the category filter,
\* ordered by relevance descending and, at equal relevance, by later
\* published_date first; a matching document is left out only when the
\* limit is reached, and none left out sorts before a returned one.
C12_RankedSearch ==
    (s_pc = "done" /\ s_query # <<>>) =>
        LET hits == {a \in Store : MatchesSearch(a) /\ PassesFilter(a)}
        IN  /\ Len(s_rows) <= s_limit
            /\ Cardinality(Found) = Len(s_rows)
            /\ Found \subseteq hits
            /\ \A k, l \in 1..Len(s_rows) :
                  k < l =>
                     \/ Relevance(s_rows[k]) > Relevance(s_rows[l])
                     \/ /\ Relevance(s_rows[k]) = Relevance(s_rows[l])
                        /\ s_rows[k].published_date >= s_rows[l].published_date
            /\ Len(s_rows) < s_limit => Found = hits
            /\ \A a \in hits \ Found, r \in Found :
                  \/ Relevance(a) < Relevance(r)
                  \/ /\ Relevance(a) = Relevance(r)
                     /\ a.published_date <= r.published_date

\* A search cut by the limit in which an older document precedes a newer
\* one because it is more relevant.
C12_Witness ==
    /\ s_pc = "done"
    /\ s_query # <<>>
    /\ Len(s_rows) = s_limit
    /\ \E a \in Store : MatchesSearch(a) /\ PassesFilter(a) /\ a \notin Found
    /\ \E k, l \in 1..Len(s_rows) :
          /\ k < l
          /\ Relevance(s_rows[k]) > Relevance(s_rows[l])
          /\ s_rows[k].published_date < s_rows[l].published_date

C18_QueryNormalized ==
    /\ s_pc \in {"fetch_wait", "done", "raised"} =>
          s_ts_query = Join(AndSep, split(s_query))
    /\ (s_pc = "done" /\ split(s_query) = <<>>) =>
          LET candidates == {a \in Store : PassesFilter(a)}
          IN  /\ Len(s_rows) = MinOf(s_limit, Cardinality(candidates))
              /\ Found \subseteq candidates
              /\ \A k, l \in 1..Len(s_rows) :
                    k < l => s_rows[k].published_date >= s_rows[l].published_date

-----------------------------------------------------------------------------
(* Properties of chunk_text *)

Words(text) == split(text)

\* C15: joining the pieces chunk_text returns with single spaces and
\* splitting the result on whitespace gives the whitespace-delimited word
\* sequence of the text: the same words, in the same order.
C15_WordsPreserved ==
    ch_pc = "done" => Words(Join(Space, ch_chunks)) = Words(ch_text)

\* A text of three words or more cut into several pieces, one of them of
\* more than one word.
C15_Witness ==
    /\ ch_pc = "done"
    /\ Len(Words(ch_text)) >= 3
    /\ Len(ch_chunks) >= 2
    /\ \E k \in 1..Len(ch_chunks) : Len(Words(ch_chunks[k])) >= 2
    /\ Words(Join(Space, ch_chunks)) = Words(ch_text)

\* C17: on the splitting path every piece of more than one word has
\* estimate_tokens(piece) <= max_chunk_size, and a word whose own estimate
\* exceeds max_chunk_size is a piece of its own.
C17_PiecesWithinLimit ==
    (ch_pc = "done" /\ estimate_tokens(ch_text) > ch_max) =>
        /\ \A k \in 1..Len(ch_chunks) :
              Len(Words(ch_chunks[k])) > 1 =>
                  estimate_tokens(ch_chunks[k]) <= ch_max
        /\ \A i \in 1..Len(Words(ch_text)) :
              estimate_tokens(Words(ch_text)[i]) > ch_max =>
                  \E k \in 1..Len(ch_chunks) : ch_chunks[k] = Words(ch_text)[i]

-----------------------------------------------------------------------------
(* Properties of Database.connect *)

Steps(e) == Cardinality({i \in 1..Len(k_log) : k_log[i] = e})

\* C19: connect makes at most 10 create_pool attempts, one at a time, each
\* but the first after the pause that follows a failed attempt; it stops at
\* the first success, with the pool set and no attempt after it; after 10
\* failed attempts it raises what the last attempt raised, the pool still
\* unset; and it never returns normally with the pool unset.
C19_ConnectRetries ==
    /\ Steps("attempt") <= 10
    /\ Steps("attempt") = k_i
    /\ \A i \in 1..Len(k_log) :
          /\ (k_log[i] = "attempt" /\ i > 1) =>
                 (i > 2 /\ k_log[i - 1] = "sleep" /\ k_log[i - 2] = "fail")
          /\ k_log[i] = "fail" =>
                 (i > 1 /\ k_log[i - 1] = "attempt"
                  /\ i < Len(k_log) /\ k_log[i + 1] = "sleep")
          /\ k_log[i] = "ok" =>
                 (i > 1 /\ k_log[i - 1] = "attempt"
                  /\ i + 1 = Len(k_log) /\ k_log[i + 1] = "return")
    /\ db_pool # "None" <=> Steps("ok") = 1
    /\ Steps("ok") <= 1
    /\ (Steps("fail") = 10 /\ k_pc \in {"returned", "raised"}) =>
          /\ k_pc = "raised"
          /\ k_raised = k_thrown
          /\ db_pool = "None"
    /\ k_pc = "returned" => db_pool = "Pool"
    /\ k_pc = "raised" => db_pool = "None"

\* Ten failed attempts, each followed by its pause, and the exception of
\* the tenth raised.
C19_Witness ==
    /\ k_pc = "raised"
    /\ Steps("attempt") = 10
    /\ Steps("fail") = 10
    /\ Steps("sleep") = 10
    /\ k_raised = k_thrown
    /\ k_raised \in PoolErrors
    /\ db_pool = "None"

-----------------------------------------------------------------------------
(* Properties of concurrent invocations *)

\* What an invocation sends and returns when it runs alone, given its
\* request and what the store and the completion service answered it.
Alone(req, h) ==
    IF h.db[1] = "fail"
    THEN [calls |-> IF req.kind = "search"
                    THEN <<SearchStatement(TsQuery(req.question),
                                           CategoryPattern(req.category),
                                           req.limit)>>
                    ELSE <<>>,
          resp |-> HTTPException(400, h.db[2])]
    ELSE IF req.kind = "search"
    THEN [calls |-> <<SearchStatement(TsQuery(req.question),
                                      CategoryPattern(req.category), req.limit)>>,
          resp |-> SearchResponse(h.db[2])]
    ELSE IF h.db[2] = <<>>
    THEN [calls |-> <<>>, resp |-> AskResponse(NoContextMessage, <<>>)]
    ELSE LET used == prioritize_articles(h.db[2], req.question, 5)
             joined == JoinedContext(used)
             content == TotalContent(used)
             over == estimate_tokens(joined) > 4000
             summarized == over /\ estimate_tokens(content) > 4000
             context == IF ~over THEN joined
                        ELSE IF ~summarized THEN content
                        ELSE IF h.summary[1] = "ok" THEN h.summary[2]
                        ELSE Slice(content, 16000)
             answer == IF h.answer[1] = "ok" THEN h.answer[2]
                       ELSE ErrorAnswer(h.answer[2])
         IN  [calls |-> (IF summarized THEN <<SummarizeCall(content)>> ELSE <<>>)
                        \o <<AnswerCall(context, req.question)>>,
              resp |-> AskResponse(answer, used)]

Elems(rows) == {rows[k] : k \in 1..Len(rows)}

\* C16: under every interleaving of two invocations sharing llm_service,
\* each one sends what it would send and returns what it would return
\* running alone on the same request with the same answers of the store
\* and the completion service; the shared configuration keeps its values;
\* and the documents an invocation holds are stored documents field by
\* field, the returned list a re-ordering of some of those it was given.
C16_NoInterference ==
    /\ \A p \in Procs :
          c_pc[p] = "done" =>
             LET alone == Alone(c_req[p], c_hist[p])
             IN  /\ c_calls[p] = alone.calls
                 /\ c_resp[p] = alone.resp
    /\ c_config = [max_tokens |-> 4000, approx_tokens_per_char |-> <<1, 4>>]
    /\ \A p \in Procs :
          /\ Elems(c_frame[p].articles) \subseteq Store
          /\ Elems(c_frame[p].prioritized_articles) \subseteq Elems(c_frame[p].articles)
          /\ Elems(c_resp[p].context_used) \subseteq Store
          /\ Cardinality(Elems(c_frame[p].prioritized_articles))
                = Len(c_frame[p].prioritized_articles)

\* Two question-answer cycles on different requests, each having taken
\* steps while the other was in flight, both past a summarization call.
C16_Witness ==
    /\ \A p \in Procs : c_pc[p] = "done" /\ p \in c_mid
    /\ c_req[1] # c_req[2]
    /\ c_resp[1].context_used # c_resp[2].context_used
    /\ \A p \in Procs : Len(c_calls[p]) = 2 /\ c_resp[p].status = 200

====
